---- MODULE Spec2Model ----
(***************************************************************************)
(* Model of the admission-control and authentication core of the olive     *)
(* orchard analysis backend: app/rate_limiter.py (per-IP sliding window,   *)
(* punitive blocks, background sweep) and app/auth.py (tokens, sessions,   *)
(* users), with the parts of app/database.py and app/middleware.py they    *)
(* rely on.                                                                *)
(*                                                                         *)
(* One worker process is modelled: RateLimiter and AuthManager are module  *)
(* level singletons of that process.  Every method of RateLimiter is a     *)
(* plain `def` and the sweep body holds no `await` between its first read  *)
(* and its last write, so on the event loop each call is one atomic step.  *)
(* Time is the integer number of seconds read from time.time().            *)
(***************************************************************************)
EXTENDS Integers, Sequences, FiniteSets, TLC

VARIABLES
    now,            \* time.time() / datetime.now(), in seconds
    ip_requests,    \* RateLimiter.ip_requests : ip -> deque of timestamps
    ip_blocks,      \* RateLimiter.ip_blocks   : ip -> block expiry
    admitted,       \* history: per ip and endpoint class, times of admitted checks
    blockedUntil,   \* history: per ip, expiry of the block set by the last limit rejection
    last,           \* history: the last call made and what it returned
    pc,             \* position of each request handler of a burst
    burst,          \* a burst: its endpoint, and how many handlers got 200 and 429
    users,          \* table users
    user_sessions,  \* table user_sessions
    blacklisted_tokens, \* AuthManager.blacklisted_tokens
    issued,         \* history: the tokens handed out to clients
    revoked,        \* history: the tokens revoke_token was called with
    wpc,            \* position of each worker inside create_user / _init_admin_user
    hist,           \* history: per ip and endpoint class, the first admitted check
                    \* and how many were admitted; per ip, whether one was rejected
    api_keys,       \* table api_keys
    api_usage_logs, \* table api_usage_logs
    tables,         \* whether init_db has created the tables of the store
    sweep_at,       \* the time at which the sleep of cleanup_old_requests ends
    seen            \* history: per ip, the time of its last request

vars == <<now, ip_requests, ip_blocks, admitted, blockedUntil, last, pc, burst,
          users, user_sessions, blacklisted_tokens, issued, revoked, wpc,
          hist, api_keys, api_usage_logs, tables, sweep_at, seen>>

taskVars == <<sweep_at, seen>>
limiterVars == <<ip_requests, ip_blocks, admitted, blockedUntil, hist, taskVars>>
burstVars == <<pc, burst>>
storeVars == <<api_keys, api_usage_logs, tables>>
authVars == <<users, user_sessions, blacklisted_tokens, issued, revoked, wpc,
              storeVars>>

----------------------------------------------------------------------------
(* Bounds of the model *)

TimeStep == 200     \* the clock advances in steps of this many seconds
MaxTime == 600      \* the clock stops here
BurstSpan == 1      \* seconds that pass, at most, while a burst is handled

(* Inputs *)
IPs == {"10.0.0.1"}
None == ""
Endpoints == {"/analiz/baslat", "/auth/giris"}
BurstEndpoints == {"/auth/giris", "/analiz/yukle"}
ShortStep == 2000   \* the authentication clock advances by this many seconds,
ShortHorizon == 2000 \* up to here,
LongStep == 605000  \* or once by this many
MaxIssued == 3      \* no token is issued once this many are out
MaxLog == 1         \* the audit log is followed up to this many rows
MaxKeys == 2        \* API keys are generated up to this many rows
BurstExtra == 5      \* requests of a burst beyond the endpoint's limit

----------------------------------------------------------------------------
(* app/rate_limiter.py *)

BLOCK_DURATION == 300
SWEEP_RETENTION == 3600
RATE_LIMIT_REQUESTS == 100
RATE_LIMIT_WINDOW == 3600

endpoint_limits ==
    [k \in {"/analiz/yukle", "/analiz/baslat", "/auth/giris", "default"} |->
        CASE k = "/analiz/yukle"  -> [requests |-> 5, window |-> 300]
          [] k = "/analiz/baslat" -> [requests |-> 10, window |-> 600]
          [] k = "/auth/giris"    -> [requests |-> 5, window |-> 300]
          [] k = "default"        -> [requests |-> RATE_LIMIT_REQUESTS,
                                      window |-> RATE_LIMIT_WINDOW]]

\* endpoint_key = endpoint or "default"
endpoint_key(endpoint) == IF endpoint = None THEN "default" ELSE endpoint

\* self.endpoint_limits.get(endpoint_key, self.endpoint_limits["default"])
limit_config(endpoint) ==
    IF endpoint_key(endpoint) \in DOMAIN endpoint_limits
    THEN endpoint_limits[endpoint_key(endpoint)]
    ELSE endpoint_limits["default"]

\* The class an endpoint is limited as: the key of the entry limit_config picks.
LimitClass(endpoint) ==
    IF endpoint_key(endpoint) \in DOMAIN endpoint_limits
    THEN endpoint_key(endpoint) ELSE "default"

\* while requests and current_time - requests[0] > window: requests.popleft()
RECURSIVE Evict(_, _, _)
Evict(requests, current_time, window) ==
    IF requests # <<>> /\ current_time - Head(requests) > window
    THEN Evict(Tail(requests), current_time, window)
    ELSE requests

\* self.ip_requests[ip] on a defaultdict(deque): a missing key reads as empty
Requests(ip) == IF ip \in DOMAIN ip_requests THEN ip_requests[ip] ELSE <<>>

\* d[k] = v on a dict
Put(d, k, v) == [x \in DOMAIN d \cup {k} |-> IF x = k THEN v ELSE d[x]]

is_blocked_never(ip) == FALSE

is_blocked_until_swept(ip) == ip \in DOMAIN ip_blocks

\* is_blocked: ip in self.ip_blocks and time.time() < self.ip_blocks[ip]
is_blocked(ip) == ip \in DOMAIN ip_blocks /\ now < ip_blocks[ip]

block_ip_no_duration(ip, duration) == Put(ip_blocks, ip, now)

\* block_ip: self.ip_blocks[ip] = time.time() + duration
block_ip(ip, duration) == Put(ip_blocks, ip, now + duration)

OverLimit_off_by_one(count, max_requests) == count > max_requests

\* if len(requests) >= max_requests: reject
OverLimit(count, max_requests) == count >= max_requests

----------------------------------------------------------------------------
(* History bookkeeping (not program state) *)

\* the admitted timestamps that are still inside `window` at time t
Recent(seq, t, window) == SelectSeq(seq, LAMBDA ts : t - ts <= window)

\* how many of them are strictly younger than the window
CountWithin(seq, t, window) == Len(SelectSeq(seq, LAMBDA ts : t - ts < window))

PruneAdmitted(adm, t) ==
    [i \in IPs |-> [c \in DOMAIN endpoint_limits |->
        Recent(adm[i][c], t, endpoint_limits[c].window)]]

----------------------------------------------------------------------------
(* RateLimiter.check_rate_limit, rate_limiter.py 78-125 *)

CheckRateLimit(ip, endpoint) ==
    LET cfg      == limit_config(endpoint)
        cls      == LimitClass(endpoint)
        requests == Evict(Requests(ip), now, cfg.window)
        prior    == CountWithin(admitted[ip][cls], now, cfg.window)
        inBlock  == now < blockedUntil[ip]
    IN  /\ IF is_blocked(ip)
           THEN /\ last' = [op |-> "check", ip |-> ip, endpoint |-> endpoint,
                            status |-> 429, cause |-> "blocked",
                            retry_after |-> ip_blocks[ip] - now,
                            prior |-> prior, inBlock |-> inBlock]
                /\ UNCHANGED <<ip_requests, ip_blocks, admitted, blockedUntil>>
           ELSE IF OverLimit(Len(requests), cfg.requests)
           THEN /\ ip_requests' = Put(ip_requests, ip, requests)
                /\ ip_blocks' = block_ip(ip, BLOCK_DURATION)
                /\ blockedUntil' = [blockedUntil EXCEPT ![ip] = now + 300]
                /\ last' = [op |-> "check", ip |-> ip, endpoint |-> endpoint,
                            status |-> 429, cause |-> "limit",
                            retry_after |-> 300,
                            prior |-> prior, inBlock |-> inBlock]
                /\ UNCHANGED admitted
           ELSE /\ ip_requests' = Put(ip_requests, ip, Append(requests, now))
                /\ admitted' = [admitted EXCEPT ![ip][cls] =
                                  Append(Recent(@, now, cfg.window), now)]
                /\ last' = [op |-> "check", ip |-> ip, endpoint |-> endpoint,
                            status |-> 200, cause |-> "none",
                            retry_after |-> 0,
                            prior |-> prior, inBlock |-> inBlock]
                /\ UNCHANGED <<ip_blocks, blockedUntil>>
        /\ UNCHANGED now

(* RateLimiter.get_rate_limit_info, rate_limiter.py 127-152, called by
   LoggingMiddleware.dispatch for the path of every request *)
Max(a, b) == IF a >= b THEN a ELSE b

GetRateLimitInfo(ip, endpoint) ==
    LET cfg      == limit_config(endpoint)
        requests == Evict(Requests(ip), now, cfg.window)
    IN  /\ ip_requests' = Put(ip_requests, ip, requests)
        /\ last' = [op |-> "info", ip |-> ip, endpoint |-> endpoint,
                    limit |-> cfg.requests,
                    remaining |-> Max(0, cfg.requests - Len(requests)),
                    reset |-> IF requests # <<>> THEN now + cfg.window ELSE now,
                    window |-> cfg.window]
        /\ UNCHANGED <<now, ip_blocks, admitted, blockedUntil>>

SweepRequests_short(reqs, t) ==
    LET kept == [i \in DOMAIN reqs |-> Evict(reqs[i], t, BLOCK_DURATION)]
    IN  [i \in {j \in DOMAIN reqs : kept[j] # <<>>} |-> kept[i]]

(* One pass of RateLimiter.cleanup_old_requests, rate_limiter.py 32-46 *)
SweepRequests(reqs, t) ==
    LET kept == [i \in DOMAIN reqs |-> Evict(reqs[i], t, SWEEP_RETENTION)]
    IN  [i \in {j \in DOMAIN reqs : kept[j] # <<>>} |-> kept[i]]

SweepBlocks_keeps(blocks, t) == blocks

SweepBlocks(blocks, t) ==
    [i \in {j \in DOMAIN blocks : ~(t > blocks[j])} |-> blocks[i]]

CleanupSweep ==
    /\ ip_requests' = SweepRequests(ip_requests, now)
    /\ ip_blocks' = SweepBlocks(ip_blocks, now)
    /\ last' = [op |-> "sweep"]
    /\ UNCHANGED <<now, admitted, blockedUntil>>

(* time.time() moves on *)
Tick ==
    /\ now + TimeStep <= MaxTime
    /\ now' = now + TimeStep
    /\ admitted' = PruneAdmitted(admitted, now')
    /\ UNCHANGED <<ip_requests, ip_blocks, blockedUntil, last>>

----------------------------------------------------------------------------------------------------------------------------------------
(* The rate limiter of one worker process *)

NoAuth ==
    /\ users = << >>
    /\ user_sessions = {}
    /\ blacklisted_tokens = {}
    /\ issued = {}
    /\ revoked = {}
    /\ wpc = << >>
    /\ api_keys = << >>
    /\ api_usage_logs = << >>
    /\ tables = FALSE

NoLimiter ==
    /\ ip_requests = << >>
    /\ ip_blocks = << >>
    /\ admitted = [i \in IPs |-> [c \in DOMAIN endpoint_limits |-> <<>>]]
    /\ blockedUntil = [i \in IPs |-> 0]
    /\ hist = [i \in IPs |->
                 [rejected |-> FALSE,
                  class |-> [c \in DOMAIN endpoint_limits |->
                                [first |-> 0, count |-> 0]]]]
    /\ sweep_at = 0
    /\ seen = [i \in IPs |-> 0]

Init ==
    /\ now = 0
    /\ NoLimiter
    /\ last = [op |-> "init"]
    /\ pc = << >>
    /\ burst = [endpoint |-> None, admitted |-> 0, rejected |-> 0]
    /\ NoAuth

Check ==
    /\ \E ip \in IPs, e \in Endpoints : CheckRateLimit(ip, e)
    /\ UNCHANGED <<burstVars, authVars, hist, taskVars>>

Info ==
    /\ \E ip \in IPs, e \in Endpoints : GetRateLimitInfo(ip, e)
    /\ UNCHANGED <<burstVars, authVars, hist, taskVars>>

Sweep ==
    /\ CleanupSweep
    /\ UNCHANGED <<burstVars, authVars, hist, taskVars>>

Clock ==
    /\ Tick
    /\ UNCHANGED <<burstVars, authVars, hist, taskVars>>

Next == Check \/ Info \/ Sweep \/ Clock

Spec == Init /\ [][Next]_vars

----------------------------------------------------------------------------
(* The rate limiter of one worker process followed, for each IP, up to its
   first rejection, with a record of the first admitted request and of the
   number of admitted requests of every endpoint class *)

\* the record after a check of class cls was admitted at time t; the count is
\* kept up to one past the class's limit
Admit(h, cls, t) ==
    [h EXCEPT !.class[cls] =
        [first |-> IF @.count = 0 THEN t ELSE @.first,
         count |-> IF @.count > endpoint_limits[cls].requests
                   THEN @.count ELSE @.count + 1]]

SlideCheck ==
    /\ \E ip \in IPs, e \in Endpoints :
          /\ ~hist[ip].rejected
          /\ CheckRateLimit(ip, e)
          /\ hist' = [hist EXCEPT ![ip] =
                         IF last'.status = 200
                         THEN Admit(@, LimitClass(e), now)
                         ELSE [@ EXCEPT !.rejected = TRUE]]
    /\ UNCHANGED <<burstVars, authVars, taskVars>>

NextSlide == SlideCheck \/ Info \/ Sweep \/ Clock

SpecSlide == Init /\ [][NextSlide]_vars

----------------------------------------------------------------------------
(* A burst: limit + BurstExtra requests of one IP to one endpoint, handled
   concurrently by the event loop of the worker (main.py: every handler
   awaits check_rate_limit first), with the sweep task running beside them *)

BurstIP == CHOOSE i \in IPs : TRUE
InitBurst ==
    /\ now = 0
    /\ NoLimiter
    /\ last = [op |-> "init"]
    /\ \E e \in BurstEndpoints :
          /\ burst = [endpoint |-> e, admitted |-> 0, rejected |-> 0]
          /\ pc = [h \in 1 .. (limit_config(e).requests + BurstExtra) |-> "start"]
    /\ NoAuth

HandlerCheck(h) ==
    /\ pc[h] = "start"
    /\ CheckRateLimit(BurstIP, burst.endpoint)
    /\ pc' = [pc EXCEPT ![h] = "done"]
    /\ burst' = IF last'.status = 200
                THEN [burst EXCEPT !.admitted = @ + 1]
                ELSE [burst EXCEPT !.rejected = @ + 1]
    /\ UNCHANGED <<authVars, hist, taskVars>>

BurstCheck == \E h \in DOMAIN pc : HandlerCheck(h)

BurstInfo ==
    /\ GetRateLimitInfo(BurstIP, burst.endpoint)
    /\ UNCHANGED <<burstVars, authVars, hist, taskVars>>

BurstSweep ==
    /\ CleanupSweep
    /\ UNCHANGED <<burstVars, authVars, hist, taskVars>>

BurstClock ==
    /\ now < BurstSpan
    /\ now' = now + 1
    /\ admitted' = PruneAdmitted(admitted, now')
    /\ UNCHANGED <<ip_requests, ip_blocks, blockedUntil, last, burstVars, authVars, hist, taskVars>>

NextBurst == BurstCheck \/ BurstInfo \/ BurstSweep \/ BurstClock

SpecBurst == InitBurst /\ [][NextBurst]_vars

----------------------------------------------------------------------------
(* The rate limiter of one worker process with the task that __init__
   creates, rate_limiter.py 26: cleanup_old_requests sweeps, sleeps
   SWEEP_INTERVAL seconds and sweeps again, rate_limiter.py 28-52, whether
   the pass ended normally or in the except branch.  The clients send
   requests until ActiveSpan, stay idle, and come back from ReturnAt to
   LastRequest; the process is followed until SweepHorizon. *)

SWEEP_INTERVAL == 60

LoopStep == 30        \* the clock advances by this many seconds, at most
ActiveSpan == 60      \* requests arrive until here,
ReturnAt == 360       \* and again from here
LastRequest == 390    \* to here
SweepHorizon == 4140  \* the task is followed until here
LoopEndpoints == {"/auth/giris"}

Active == now <= ActiveSpan \/ (ReturnAt <= now /\ now <= LastRequest)

LoopCheck ==
    /\ Active
    /\ \E ip \in IPs, e \in LoopEndpoints :
          /\ CheckRateLimit(ip, e)
          /\ seen' = [seen EXCEPT ![ip] = now]
    /\ UNCHANGED <<burstVars, authVars, hist, sweep_at>>

LoopInfo ==
    /\ Active
    /\ \E ip \in IPs, e \in LoopEndpoints : GetRateLimitInfo(ip, e)
    /\ UNCHANGED <<burstVars, authVars, hist, taskVars>>

\* the sleep has ended: one pass, and the next sleep
LoopSweep ==
    /\ now = sweep_at
    /\ CleanupSweep
    /\ sweep_at' = IF now + SWEEP_INTERVAL <= SweepHorizon
                   THEN now + SWEEP_INTERVAL ELSE sweep_at
    /\ UNCHANGED <<burstVars, authVars, hist, seen>>

\* time passes, but not beyond the end of the sleep before the task has run
LoopClock ==
    /\ now < sweep_at
    /\ now' = IF now + LoopStep <= sweep_at THEN now + LoopStep ELSE sweep_at
    /\ admitted' = PruneAdmitted(admitted, now')
    /\ UNCHANGED <<ip_requests, ip_blocks, blockedUntil, last, burstVars,
                   authVars, hist, taskVars>>

NextLoop == LoopCheck \/ LoopInfo \/ LoopSweep \/ LoopClock

\* the event loop runs the task when its sleep ends, and time passes
SpecLoop ==
    /\ Init
    /\ [][NextLoop]_vars
    /\ WF_vars(LoopSweep)
    /\ WF_vars(LoopClock)

----------------------------------------------------------------------------
(* The rate limiter of one worker process under requests to an endpoint
   without a limit of its own, which falls under the default limit, the
   largest one; the middleware asks for the limits of the other endpoints *)

FillStep == 2000      \* the clock advances in steps of this many seconds
FillHorizon == 2000   \* up to here
FillEndpoints == {None}

FillCheck ==
    /\ \E ip \in IPs, e \in FillEndpoints : CheckRateLimit(ip, e)
    /\ UNCHANGED <<burstVars, authVars, hist, taskVars>>

FillClock ==
    /\ now + FillStep <= FillHorizon
    /\ now' = now + FillStep
    /\ admitted' = PruneAdmitted(admitted, now')
    /\ UNCHANGED <<ip_requests, ip_blocks, blockedUntil, last, burstVars,
                   authVars, hist, taskVars>>

NextFill == FillCheck \/ Info \/ Sweep \/ FillClock

SpecFill == Init /\ [][NextFill]_vars

----------------------------------------------------------------------------
(* app/auth.py and the tables of app/database.py it uses.

   A token string is modelled by what it decodes to: the claims it carries and
   whether its signature verifies under the secret key.  jwt.encode is
   deterministic, so two tokens with equal claims are the same string.
   users is the table in rowid order; kullanici_id is the position of the row
   (INTEGER PRIMARY KEY AUTOINCREMENT, rows are never deleted).  A row of
   user_sessions is identified by its content: session_id is only ever
   selected to test that a row exists. *)

ACCESS_TOKEN_EXPIRE_MINUTES == 30
REFRESH_TOKEN_EXPIRE_DAYS == 7

AccessTTL == ACCESS_TOKEN_EXPIRE_MINUTES * 60
RefreshTTL == REFRESH_TOKEN_EXPIRE_DAYS * 86400

Roles == {"admin", "premium", "standart"}

\* what a client sends when it sends no token: get_current_user tests `not token`
NoToken == [typ |-> "none", user_id |-> 0, role |-> "", exp |-> 0, sig |-> "bad"]

\* a token made without the secret key: its signature does not verify
Forged == [typ |-> "access", user_id |-> 1, role |-> "admin",
           exp |-> RefreshTTL, sig |-> "bad"]

NoneResult == [kind |-> "none"]
Raised == [kind |-> "raise"]

\* pwd_context.hash / pwd_context.verify (bcrypt): a hash verifies exactly the
\* password it was made from
get_password_hash(password) == <<"bcrypt", password>>
verify_password(plain_password, hashed_password) ==
    hashed_password = get_password_hash(plain_password)

\* create_access_token: data + {"exp": utcnow + minutes, "type": "access"}
create_access_token(user_id, role) ==
    [typ |-> "access", user_id |-> user_id, role |-> role,
     exp |-> now + AccessTTL, sig |-> "ok"]

\* the token create_refresh_token encodes
refresh_token_for(user_id) ==
    [typ |-> "refresh", user_id |-> user_id, role |-> "",
     exp |-> now + RefreshTTL, sig |-> "ok"]

\* the row create_refresh_token inserts; is_active takes the column default 1
session_row(user_id, token) ==
    [user_id |-> user_id, refresh_token |-> token,
     expires_at |-> now + RefreshTTL, is_active |-> TRUE]

jwt_decode_no_expiry(token) ==
    IF token.sig # "ok" THEN Raised
    ELSE [kind |-> "payload", payload |-> token]

\* jwt.decode(token, secret_key, algorithms=[HS256]) inside verify_token's try:
\* the signature is checked first, then exp.  ExpiredSignatureError is caught
\* and gives None.  Any other decode error reaches `except jwt.JWTError`, a
\* name the jwt module (PyJWT) does not define: evaluating the clause raises
\* AttributeError out of verify_token.
jwt_decode(token) ==
    IF token.sig # "ok" THEN Raised
    ELSE IF token.exp <= now THEN NoneResult
    ELSE [kind |-> "payload", payload |-> token]

verify_token_no_blacklist(token) == jwt_decode(token)

\* AuthManager.verify_token
verify_token(token) ==
    IF token \in blacklisted_tokens THEN NoneResult ELSE jwt_decode(token)

revoke_token_of_user(token) ==
    blacklisted_tokens \cup {t \in issued : t.user_id = token.user_id}

\* AuthManager.revoke_token: self.blacklisted_tokens.add(token)
revoke_token(token) == blacklisted_tokens \cup {token}

\* AuthManager.get_user_by_id: the row or None
get_user_by_id(user_id) ==
    IF user_id \in DOMAIN users
    THEN [kind |-> "user", user |-> users[user_id]]
    ELSE NoneResult

\* SELECT ... FROM users WHERE kullanici_adi = ? OR email = ?  (fetchone: the
\* first matching row in rowid order)
MatchingUsers(store, username, email) ==
    {i \in DOMAIN store : store[i].kullanici_adi = username \/ store[i].email = email}

Min(S) == CHOOSE x \in S : \A y \in S : x <= y

\* cursor.fetchone() after a SELECT without ORDER BY that matched `rows`: any
\* of them, since the order of the rows is the query planner's; 0 is None
fetchone(rows) == IF rows = {} THEN {0} ELSE rows

\* the row log_api_request inserts into api_usage_logs
log_row(user_id, endpoint, method, status_code, ip_address) ==
    [user_id |-> user_id, endpoint |-> endpoint, method |-> method,
     status_code |-> status_code, ip_address |-> ip_address, timestamp |-> now]

log_api_request_unguarded(log, row, storage_ok) ==
    IF storage_ok THEN [raised |-> FALSE, log |-> Append(log, row)]
    ELSE [raised |-> TRUE, log |-> log]

\* AuthManager.log_api_request: connect, INSERT, commit, all inside
\* try / except Exception.  storage_ok says whether the store takes the write;
\* when it does not, the error is logged and the call returns.
log_api_request(log, row, storage_ok) ==
    IF storage_ok THEN [raised |-> FALSE, log |-> Append(log, row)]
    ELSE [raised |-> FALSE, log |-> log]

authenticate_user_logs_failures(username, password, storage_ok, row) ==
    LET rows == MatchingUsers(users, username, username)
        w == log_api_request(api_usage_logs,
                 log_row(0, "/auth/login", "POST", 401, "unknown"), storage_ok)
    IN  IF rows # {} /\ users[row].is_active
           /\ verify_password(password, users[row].hashed_password)
        THEN [result |-> [kind |-> "user", user |-> users[row]],
              log |-> api_usage_logs]
        ELSE [result |-> NoneResult, log |-> w.log]

\* AuthManager.authenticate_user: the value returned and the audit log it
\* leaves.  Only a successful login is logged; an exception out of
\* log_api_request would be caught by the method's own except and give None.
\* `row` is the row that fetchone returned
authenticate_user(username, password, storage_ok, row) ==
    LET rows == MatchingUsers(users, username, username)
        none == [result |-> NoneResult, log |-> api_usage_logs]
    IN  IF rows = {} THEN none
        ELSE LET user == users[row]
                 w == log_api_request(api_usage_logs,
                          log_row(user.kullanici_id, "/auth/login", "POST", 200,
                                  "unknown"),
                          storage_ok)
             IN  IF ~user.is_active THEN none
                 ELSE IF ~verify_password(password, user.hashed_password)
                 THEN none
                 ELSE IF w.raised THEN [result |-> NoneResult, log |-> w.log]
                 ELSE [result |-> [kind |-> "user", user |-> user], log |-> w.log]

\* the users table's UNIQUE constraints on kullanici_adi and on email
UniqueViolation_unchecked(store, row) == FALSE

UniqueViolation(store, row) ==
    \E i \in DOMAIN store :
        store[i].kullanici_adi = row.kullanici_adi \/ store[i].email = row.email

InsertUser_unconstrained(store, row) ==
    [ok |-> TRUE, store |-> Append(store, [row EXCEPT !.kullanici_id = Len(store) + 1])]

\* INSERT INTO users: the new store, or the store as it was when the insert
\* raises sqlite3.IntegrityError
InsertUser(store, row) ==
    IF UniqueViolation(store, row)
    THEN [ok |-> FALSE, store |-> store]
    ELSE [ok |-> TRUE,
          store |-> Append(store, [row EXCEPT !.kullanici_id = Len(store) + 1])]

\* users.last_login of a user who has not logged in (NULL), database.py 37
NoLogin == -1

user_row(username, email, password, role) ==
    [kullanici_id |-> 0, kullanici_adi |-> username, email |-> email,
     hashed_password |-> get_password_hash(password),
     rol |-> role, is_active |-> TRUE, last_login |-> NoLogin]

\* AuthManager.update_last_login, auth.py 236-250: UPDATE users SET
\* last_login = now WHERE kullanici_id = user_id
update_last_login(store, user_id, t) ==
    [i \in DOMAIN store |->
        IF store[i].kullanici_id = user_id
        THEN [store[i] EXCEPT !.last_login = t] ELSE store[i]]

ValidInput_any(username, password) == TRUE

\* create_user, lines 199-204: input validation and role coercion
ValidInput(username, password) == ~(Len(username) < 3 \/ Len(password) < 8)
CoerceRole(role) == IF role \notin Roles THEN "standart" ELSE role

\* AuthManager.create_user run without interruption
create_user(store, username, email, password, role) ==
    IF ~ValidInput(username, password) THEN [ok |-> FALSE, store |-> store]
    ELSE IF MatchingUsers(store, username, email) # {}
    THEN [ok |-> FALSE, store |-> store]
    ELSE InsertUser(store, user_row(username, email, password, CoerceRole(role)))

\* AuthManager._init_admin_user run without interruption
init_admin_user(store) ==
    IF \E i \in DOMAIN store : store[i].kullanici_adi = "admin" THEN store
    ELSE InsertUser(store, user_row("admin", "admin@zeytinanaliz.com",
                                    "admin123", "admin")).store

\* SELECT session_id FROM user_sessions
\*   WHERE user_id = ? AND refresh_token = ? AND expires_at > ?
SessionFound(user_id, token) ==
    \E s \in user_sessions :
        s.user_id = user_id /\ s.refresh_token = token /\ s.expires_at > now

\* payload.get("type") != "refresh"
TypeIsRefresh(payload) == payload.typ = "refresh"

refresh_access_token_verify_only(token) ==
    LET v == verify_token(token)
    IN  IF v.kind # "payload" THEN NoneResult
        ELSE LET u == get_user_by_id(v.payload.user_id)
             IN  IF u.kind # "user" THEN NoneResult
                 ELSE [kind |-> "token",
                       token |-> create_access_token(u.user.kullanici_id,
                                                     u.user.rol)]

\* AuthManager.refresh_access_token; every exception inside is caught and
\* gives None
refresh_access_token(token) ==
    LET v == verify_token(token)
    IN  IF v.kind # "payload" THEN NoneResult
        ELSE IF ~TypeIsRefresh(v.payload) THEN NoneResult
        ELSE IF v.payload.user_id = 0 THEN NoneResult
        ELSE IF ~SessionFound(v.payload.user_id, token) THEN NoneResult
        ELSE LET u == get_user_by_id(v.payload.user_id)
             IN  IF u.kind # "user" THEN NoneResult
                 ELSE [kind |-> "token",
                       token |-> create_access_token(u.user.kullanici_id,
                                                     u.user.rol)]

\* get_current_user; an exception out of verify_token is not an
\* HTTPException: the request ends as a server error (500)
get_current_user(token) ==
    IF token = NoToken THEN [status |-> 401]
    ELSE LET v == verify_token(token)
         IN  IF v.kind = "raise" THEN [status |-> 500]
             ELSE IF v.kind = "none" THEN [status |-> 401]
             ELSE IF v.payload.user_id = 0 THEN [status |-> 401]
             ELSE LET u == get_user_by_id(v.payload.user_id)
                  IN  IF u.kind # "user" THEN [status |-> 401]
                      ELSE [status |-> 200, user |-> u.user]

\* get_admin_user
get_admin_user(token) ==
    LET r == get_current_user(token)
    IN  IF r.status # 200 THEN r
        ELSE IF r.user.rol # "admin" THEN [status |-> 403]
        ELSE r

\* get_current_user_optional: None (status 0 here) for no token and for an
\* HTTPException of get_current_user
get_current_user_optional(token) ==
    IF token = NoToken THEN [status |-> 0]
    ELSE LET r == get_current_user(token)
         IN  IF r.status = 401 THEN [status |-> 0] ELSE r

\* DELETE FROM user_sessions WHERE expires_at < ?
cleanup_old_sessions == {s \in user_sessions : ~(s.expires_at < now)}

\* f"zeytin_{secrets.token_urlsafe(32)}": 256 random bits, a string no earlier
\* call returned.  Rows of api_keys are never deleted, so the number of rows
\* names a fresh key.
fresh_api_key(keys) == Len(keys) + 1

\* INSERT OR REPLACE INTO api_keys (user_id, api_key, created_at, is_active):
\* REPLACE removes the rows that collide on a UNIQUE or PRIMARY KEY column.
\* key_id is assigned by AUTOINCREMENT and api_key is the only UNIQUE column
\* (database.py 57-66); user_id is not.
InsertOrReplaceKey(keys, row) ==
    Append(SelectSeq(keys, LAMBDA k : k.api_key # row.api_key), row)

\* AuthManager.generate_api_key: the key returned (0 for None) and the table
generate_api_key(user_id) ==
    LET u == get_user_by_id(user_id)
    IN  IF u.kind # "user" \/ u.user.rol \notin {"admin", "premium"}
        THEN [api_key |-> 0, keys |-> api_keys]
        ELSE [api_key |-> fresh_api_key(api_keys),
              keys |-> InsertOrReplaceKey(api_keys,
                          [user_id |-> user_id,
                           api_key |-> fresh_api_key(api_keys),
                           created_at |-> now, is_active |-> TRUE])]

\* AuthManager.verify_api_key: SELECT ... FROM api_keys ak JOIN users u ...
\* WHERE ak.api_key = ? AND ak.is_active = 1 AND u.is_active = 1
verify_api_key(api_key) ==
    LET rows == {i \in DOMAIN api_keys :
                    /\ api_keys[i].api_key = api_key
                    /\ api_keys[i].is_active
                    /\ api_keys[i].user_id \in DOMAIN users
                    /\ users[api_keys[i].user_id].is_active}
    IN  IF rows = {} THEN NoneResult
        ELSE [kind |-> "user", user |-> users[api_keys[Min(rows)].user_id]]

----------------------------------------------------------------------------
(* The authentication manager of one worker process, on a store where
   init_db and the admin bootstrap have run *)

LoginNames == {"admin", "bob", "bob@example.com"}
LoginPasswords == {"admin123", "password1"}
NewUsers == {<<"bob", "bob@example.com", "password1", "standart">>}

\* the token strings a client can send
Presented == issued \cup {Forged, NoToken}

InitAuth ==
    /\ now = 0
    /\ NoLimiter
    /\ last = [op |-> "init"]
    /\ pc = << >>
    /\ burst = [endpoint |-> None, admitted |-> 0, rejected |-> 0]
    /\ users = init_admin_user(<< >>)
    /\ user_sessions = {}
    /\ blacklisted_tokens = {}
    /\ issued = {}
    /\ revoked = {}
    /\ wpc = << >>
    /\ api_keys = << >>
    /\ api_usage_logs = << >>
    /\ tables = TRUE

Untouched == UNCHANGED <<now, limiterVars, burstVars, wpc, storeVars>>

\* POST /auth/kullanici-olustur, after the admin check: create_user
AuthCreateUser ==
    \E a \in NewUsers :
        LET r == create_user(users, a[1], a[2], a[3], a[4])
        IN  /\ users' = r.store
            /\ last' = [op |-> "create_user", ok |-> r.ok]
            /\ UNCHANGED <<user_sessions, blacklisted_tokens, issued, revoked>>
            /\ Untouched

\* POST /auth/giris (main.py 302-336): authenticate_user, then an access token
\* made from user_id and username only (no role claim), then a refresh token
\* and its session row
giris(username, password, storage_ok, row) ==
    LET a == authenticate_user(username, password, storage_ok, row)
        r == a.result
    IN  IF r.kind # "user"
        THEN [status |-> 401, log |-> a.log]
        ELSE [status |-> 200, log |-> a.log,
              access |-> create_access_token(r.user.kullanici_id, ""),
              refresh |-> refresh_token_for(r.user.kullanici_id),
              session |-> session_row(r.user.kullanici_id,
                                      refresh_token_for(r.user.kullanici_id))]

\* the store takes the audit row of a successful login (its refusal is
\* followed in SpecAccounts)
AuthLogin ==
    \E username \in LoginNames, password \in LoginPasswords :
      \E row \in fetchone(MatchingUsers(users, username, username)) :
        LET g == giris(username, password, TRUE, row)
        IN  /\ Len(g.log) <= MaxLog
            /\ api_usage_logs' = g.log
            /\ UNCHANGED <<now, limiterVars, burstVars, wpc, api_keys, tables>>
            /\ IF g.status # 200
               THEN /\ last' = [op |-> "login", status |-> 401]
                    /\ UNCHANGED <<users, user_sessions, blacklisted_tokens, issued, revoked>>
               ELSE /\ Cardinality(issued \cup {g.access, g.refresh}) <= MaxIssued
                    /\ user_sessions' = user_sessions \cup {g.session}
                    /\ issued' = issued \cup {g.access, g.refresh}
                    /\ last' = [op |-> "login", status |-> 200,
                                access |-> g.access, refresh |-> g.refresh]
                    /\ UNCHANGED <<users, blacklisted_tokens, revoked>>

\* what a call with `token` was made on
Call(op, token) ==
    [op |-> op, token |-> token,
     expired |-> token.exp < now,
     live |-> token.sig = "ok" /\ token.exp > now /\ token \notin blacklisted_tokens,
     owner |-> get_user_by_id(token.user_id)]

\* a call of verify_token (LoggingMiddleware.dispatch makes one per request)
AuthVerify ==
    \E token \in Presented \ {NoToken} :
        /\ last' = [call |-> Call("verify_token", token), result |-> verify_token(token)]
        /\ UNCHANGED authVars
        /\ Untouched

AuthGetCurrentUser ==
    \E token \in Presented :
        /\ last' = [call |-> Call("get_current_user", token),
                    result |-> get_current_user(token)]
        /\ UNCHANGED authVars
        /\ Untouched

AuthGetAdminUser ==
    \E token \in Presented :
        /\ last' = [call |-> Call("get_admin_user", token),
                    result |-> get_admin_user(token)]
        /\ UNCHANGED authVars
        /\ Untouched

AuthGetCurrentUserOptional ==
    \E token \in Presented :
        /\ last' = [call |-> Call("get_current_user_optional", token),
                    result |-> get_current_user_optional(token)]
        /\ UNCHANGED authVars
        /\ Untouched

AuthRefresh_rotating ==
    \E token \in Presented \ {NoToken} :
        LET r == refresh_access_token(token)
        IN  /\ r.kind = "token" => Cardinality(issued \cup {r.token}) <= MaxIssued
            /\ issued' = IF r.kind = "token" THEN issued \cup {r.token} ELSE issued
            /\ user_sessions' =
                  IF r.kind = "token"
                  THEN {s \in user_sessions : s.refresh_token # token}
                  ELSE user_sessions
            /\ last' = [call |-> Call("refresh_access_token", token), result |-> r,
                        session |-> TRUE, fresh |-> issued' \ issued]
            /\ UNCHANGED <<users, blacklisted_tokens, revoked>>
            /\ Untouched

\* POST /auth/yenile: refresh_access_token
AuthRefresh ==
    \E token \in Presented \ {NoToken} :
        LET r == refresh_access_token(token)
        IN  /\ r.kind = "token" => Cardinality(issued \cup {r.token}) <= MaxIssued
            /\ issued' = IF r.kind = "token" THEN issued \cup {r.token} ELSE issued
            /\ last' = [call |-> Call("refresh_access_token", token), result |-> r,
                        session |-> \E s \in user_sessions :
                                       /\ s.user_id = token.user_id
                                       /\ s.refresh_token = token
                                       /\ s.expires_at > now
                                       /\ s.is_active,
                        fresh |-> issued' \ issued]
            /\ UNCHANGED <<users, user_sessions, blacklisted_tokens, revoked>>
            /\ Untouched

\* POST /auth/cikis (main.py 360-376): the caller passes get_current_user, then
\* the bearer token of the Authorization header is revoked; the client sends
\* the same token in both places
AuthLogout ==
    \E token \in Presented :
        /\ get_current_user(token).status = 200
        /\ blacklisted_tokens' = revoke_token(token)
        /\ revoked' = revoked \cup {token}
        /\ last' = [op |-> "revoke_token", token |-> token]
        /\ UNCHANGED <<users, user_sessions, issued>>
        /\ Untouched

\* database.cleanup_old_sessions
AuthCleanupSessions ==
    /\ user_sessions' = cleanup_old_sessions
    /\ last' = [op |-> "cleanup_old_sessions"]
    /\ UNCHANGED <<users, blacklisted_tokens, issued, revoked>>
    /\ Untouched

\* The is_active column of user_sessions: no statement of the application
\* writes it after the insert; it is cleared by whoever administers the store.
SessionDeactivated ==
    \E s \in user_sessions :
        /\ s.is_active
        /\ user_sessions' = (user_sessions \ {s}) \cup {[s EXCEPT !.is_active = FALSE]}
        /\ last' = [op |-> "session_deactivated"]
        /\ UNCHANGED <<users, blacklisted_tokens, issued, revoked>>
        /\ Untouched

AuthClock ==
    /\ \/ now + ShortStep <= ShortHorizon /\ now' = now + ShortStep
       \/ now < LongStep /\ now' = now + LongStep
    /\ UNCHANGED <<last, limiterVars, burstVars, authVars>>

NextAuth ==
    \/ AuthCreateUser \/ AuthLogin \/ AuthVerify \/ AuthGetCurrentUser
    \/ AuthGetAdminUser \/ AuthGetCurrentUserOptional \/ AuthRefresh
    \/ AuthLogout \/ AuthCleanupSessions \/ SessionDeactivated \/ AuthClock

SpecAuth == InitAuth /\ [][NextAuth]_vars

----------------------------------------------------------------------------
(* The users table shared by several worker processes (gunicorn.conf.py:
   workers = 4, one SQLite file).  Each statement is atomic in the store; a
   worker's SELECT and its later INSERT are two statements, and the other
   workers run between them. *)

Workers == {"w1", "w2"}
Usernames == {"admin", "bob", "ab"}
Emails == {"admin@zeytinanaliz.com", "bob@example.com", "eve@example.com"}
Passwords == {"password1", "short"}
RoleInputs == {"premium", "root"}

Idle == [at |-> "idle"]

InitUsers ==
    /\ now = 0
    /\ NoLimiter
    /\ last = [op |-> "init"]
    /\ pc = << >>
    /\ burst = [endpoint |-> None, admitted |-> 0, rejected |-> 0]
    /\ users = << >>
    /\ user_sessions = {}
    /\ blacklisted_tokens = {}
    /\ issued = {}
    /\ revoked = {}
    /\ wpc = [w \in Workers |-> Idle]
    /\ api_keys = << >>
    /\ api_usage_logs = << >>
    /\ tables = TRUE

StoreOnly == UNCHANGED <<now, limiterVars, burstVars, user_sessions,
                         blacklisted_tokens, issued, revoked, storeVars>>

\* create_user up to and including its SELECT (auth.py 199-217)
CreateUserSelect(w) ==
    /\ wpc[w] = Idle
    /\ \E username \in Usernames, email \in Emails,
          password \in Passwords, role \in RoleInputs :
          LET existed == MatchingUsers(users, username, email) # {}
          IN  IF ~ValidInput(username, password) \/ existed
              THEN /\ last' = [op |-> "create_user", worker |-> w, ok |-> FALSE,
                               stage |-> "select", existed |-> existed,
                               username |-> username, password |-> password]
                   /\ UNCHANGED wpc
              ELSE /\ wpc' = [wpc EXCEPT ![w] =
                                [at |-> "create_insert",
                                 row |-> user_row(username, email, password,
                                                  CoerceRole(role))]]
                   /\ last' = [op |-> "select", worker |-> w]
    /\ UNCHANGED users
    /\ StoreOnly

\* create_user from its INSERT on (auth.py 219-234); IntegrityError is caught
\* by `except Exception` and gives False
CreateUserInsert(w) ==
    /\ wpc[w].at = "create_insert"
    /\ LET r == InsertUser(users, wpc[w].row)
       IN  /\ users' = r.store
           /\ last' = [op |-> "create_user", worker |-> w, ok |-> r.ok,
                       stage |-> "insert",
                       existed |-> MatchingUsers(users, wpc[w].row.kullanici_adi,
                                                 wpc[w].row.email) # {},
                       username |-> wpc[w].row.kullanici_adi,
                       password |-> wpc[w].row.hashed_password[2]]
    /\ wpc' = [wpc EXCEPT ![w] = Idle]
    /\ StoreOnly

\* _init_admin_user up to and including its SELECT (auth.py 30-35)
InitAdminSelect(w) ==
    /\ wpc[w] = Idle
    /\ wpc' = [wpc EXCEPT ![w] =
                 IF \E i \in DOMAIN users : users[i].kullanici_adi = "admin"
                 THEN Idle ELSE [at |-> "admin_insert"]]
    /\ last' = [op |-> "init_admin_select", worker |-> w]
    /\ UNCHANGED users
    /\ StoreOnly

\* _init_admin_user from its INSERT on (auth.py 36-47); an error is logged
InitAdminInsert(w) ==
    /\ wpc[w].at = "admin_insert"
    /\ users' = InsertUser(users, user_row("admin", "admin@zeytinanaliz.com",
                                           "admin123", "admin")).store
    /\ wpc' = [wpc EXCEPT ![w] = Idle]
    /\ last' = [op |-> "init_admin_insert", worker |-> w]
    /\ StoreOnly

UsersCreateSelect == \E w \in Workers : CreateUserSelect(w)
UsersCreateInsert == \E w \in Workers : CreateUserInsert(w)
UsersAdminSelect == \E w \in Workers : InitAdminSelect(w)
UsersAdminInsert == \E w \in Workers : InitAdminInsert(w)

NextUsers ==
    UsersCreateSelect \/ UsersCreateInsert \/ UsersAdminSelect \/ UsersAdminInsert

SpecUsers == InitUsers /\ [][NextUsers]_vars

----------------------------------------------------------------------------
(* Startups of the application on one store.  Importing app.main imports
   app.auth first, whose last statement constructs AuthManager and so runs
   _init_admin_user (main.py 19); init_db() is called further down the module
   (main.py 55).  A worker here is one server start; two may start on the
   same SQLite file.  Users are added only through POST
   /auth/kullanici-olustur, which asks for an admin's token. *)

Down == [at |-> "down"]
AdminPresent(store) == \E i \in DOMAIN store : store[i].kullanici_adi = "admin"
BootNewUsers ==
    NewUsers \cup {<<"admin", "root@example.com", "password1", "admin">>}

InitBoot ==
    /\ now = 0
    /\ NoLimiter
    /\ last = [op |-> "init"]
    /\ pc = << >>
    /\ burst = [endpoint |-> None, admitted |-> 0, rejected |-> 0]
    /\ users = << >>
    /\ user_sessions = {}
    /\ blacklisted_tokens = {}
    /\ issued = {}
    /\ revoked = {}
    /\ wpc = [w \in Workers |-> Down]
    /\ api_keys = << >>
    /\ api_usage_logs = << >>
    /\ tables = FALSE

BootFrame == UNCHANGED <<now, limiterVars, burstVars, blacklisted_tokens, revoked,
                         api_keys>>

\* AuthManager.__init__ -> _init_admin_user up to its SELECT (auth.py 27-35).
\* Without the users table the SELECT raises sqlite3.OperationalError, which
\* the method's except clause logs.
BootImportSelect(w) ==
    /\ wpc[w] = Down
    /\ wpc' = [wpc EXCEPT ![w] =
                 IF ~tables THEN [at |-> "imported", ran |-> FALSE]
                 ELSE IF AdminPresent(users) THEN [at |-> "imported", ran |-> TRUE]
                 ELSE [at |-> "admin_insert", ran |-> TRUE]]
    /\ last' = [op |-> "init_admin_select", worker |-> w,
                found |-> tables /\ AdminPresent(users)]
    /\ UNCHANGED <<users, user_sessions, issued, api_usage_logs, tables>>
    /\ BootFrame

\* _init_admin_user from its INSERT on (auth.py 36-47)
BootImportInsert(w) ==
    /\ wpc[w].at = "admin_insert"
    /\ users' = InsertUser(users, user_row("admin", "admin@zeytinanaliz.com",
                                           "admin123", "admin")).store
    /\ wpc' = [wpc EXCEPT ![w] = [at |-> "imported", ran |-> TRUE]]
    /\ last' = [op |-> "init_admin_insert", worker |-> w]
    /\ UNCHANGED <<user_sessions, issued, api_usage_logs, tables>>
    /\ BootFrame

\* init_db(): CREATE TABLE IF NOT EXISTS for every table (main.py 55)
BootInitDb(w) ==
    /\ wpc[w].at = "imported"
    /\ tables' = TRUE
    /\ wpc' = [wpc EXCEPT ![w] = [at |-> "up", ran |-> wpc[w].ran]]
    /\ last' = [op |-> "init_db", worker |-> w]
    /\ UNCHANGED <<users, user_sessions, issued, api_usage_logs>>
    /\ BootFrame

\* POST /auth/giris on a server that is up
BootLogin(w) ==
    /\ wpc[w].at = "up"
    /\ \E username \in LoginNames, password \in LoginPasswords :
        \E row \in fetchone(MatchingUsers(users, username, username)) :
          LET g == giris(username, password, TRUE, row)
          IN  /\ Len(g.log) <= MaxLog
              /\ api_usage_logs' = g.log
              /\ IF g.status # 200
                 THEN /\ last' = [op |-> "login", username |-> username,
                                  password |-> password, status |-> 401]
                      /\ UNCHANGED <<user_sessions, issued>>
                 ELSE /\ user_sessions' = user_sessions \cup {g.session}
                      /\ issued' = issued \cup {g.access, g.refresh}
                      /\ last' = [op |-> "login", username |-> username,
                                  password |-> password, status |-> 200,
                                  access |-> g.access, refresh |-> g.refresh]
    /\ UNCHANGED <<users, wpc, tables>>
    /\ BootFrame

\* POST /auth/kullanici-olustur (main.py 378-403): Depends(get_admin_user),
\* then create_user
BootCreateUser(w) ==
    /\ wpc[w].at = "up"
    /\ \E token \in issued : get_admin_user(token).status = 200
    /\ \E a \in BootNewUsers :
          LET r == create_user(users, a[1], a[2], a[3], a[4])
          IN  /\ users' = r.store
              /\ last' = [op |-> "create_user", ok |-> r.ok]
    /\ UNCHANGED <<user_sessions, issued, api_usage_logs, wpc, tables>>
    /\ BootFrame

\* the server process ends
BootStop(w) ==
    /\ wpc[w].at \in {"imported", "up"}
    /\ wpc' = [wpc EXCEPT ![w] = Down]
    /\ last' = [op |-> "stop", worker |-> w]
    /\ UNCHANGED <<users, user_sessions, issued, api_usage_logs, tables>>
    /\ BootFrame

BootSelect == \E w \in Workers : BootImportSelect(w)
BootInsert == \E w \in Workers : BootImportInsert(w)
BootInit == \E w \in Workers : BootInitDb(w)
BootGiris == \E w \in Workers : BootLogin(w)
BootCreate == \E w \in Workers : BootCreateUser(w)
BootEnd == \E w \in Workers : BootStop(w)

NextBoot ==
    BootSelect \/ BootInsert \/ BootInit \/ BootGiris \/ BootCreate \/ BootEnd

SpecBoot == InitBoot /\ [][NextBoot]_vars

----------------------------------------------------------------------------
(* Accounts on an initialised store: logins with their audit rows, API keys,
   and the audit write of the logging middleware.  storage_ok is whether the
   store accepts the write of log_api_request. *)

AccountUsers == {<<"bob", "bob@example.com", "password1", "premium">>}

InitAccounts ==
    /\ now = 0
    /\ NoLimiter
    /\ last = [op |-> "init"]
    /\ pc = << >>
    /\ burst = [endpoint |-> None, admitted |-> 0, rejected |-> 0]
    /\ users = init_admin_user(<< >>)
    /\ user_sessions = {}
    /\ blacklisted_tokens = {}
    /\ issued = {}
    /\ revoked = {}
    /\ wpc = << >>
    /\ api_keys = << >>
    /\ api_usage_logs = << >>
    /\ tables = TRUE

AcctFrame == UNCHANGED <<now, ip_blocks, admitted, blockedUntil, hist, taskVars, burstVars,
                         user_sessions, blacklisted_tokens, issued, revoked,
                         wpc, tables>>

\* which of authenticate_user's cases a login attempt is
LoginCase(username, password, row) ==
    LET rows == MatchingUsers(users, username, username)
    IN  IF rows = {} THEN "no_user"
        ELSE IF ~users[row].is_active THEN "inactive"
        ELSE IF users[row].hashed_password # get_password_hash(password)
        THEN "wrong_password"
        ELSE "ok"

AcctCreateUser ==
    /\ \E a \in AccountUsers :
          LET r == create_user(users, a[1], a[2], a[3], a[4])
          IN  /\ users' = r.store
              /\ last' = [op |-> "create_user", ok |-> r.ok]
    /\ UNCHANGED <<ip_requests, api_keys, api_usage_logs>>
    /\ AcctFrame

\* The is_active column of users: create_user sets it, no statement of the
\* application clears it; it is cleared by whoever administers the store.
UserDeactivated ==
    /\ \E i \in DOMAIN users :
          /\ users[i].is_active
          /\ users' = [users EXCEPT ![i].is_active = FALSE]
    /\ last' = [op |-> "user_deactivated"]
    /\ UNCHANGED <<ip_requests, api_keys, api_usage_logs>>
    /\ AcctFrame

\* a call of authenticate_user
AcctAuthenticate ==
    /\ \E username \in LoginNames, password \in LoginPasswords,
          storage_ok \in BOOLEAN :
        \E row \in fetchone(MatchingUsers(users, username, username)) :
          LET a == authenticate_user(username, password, storage_ok, row)
          IN  /\ Len(a.log) <= MaxLog
              /\ api_usage_logs' = a.log
              /\ last' = [op |-> "authenticate_user",
                          case |-> LoginCase(username, password, row),
                          matched |-> MatchingUsers(users, username, username),
                          storage_ok |-> storage_ok, result |-> a.result]
    /\ UNCHANGED <<users, ip_requests, api_keys>>
    /\ AcctFrame

\* a call of generate_api_key
AcctGenerateKey ==
    /\ Len(api_keys) < MaxKeys
    /\ \E user_id \in 1 .. (Len(users) + 1) :
          LET g == generate_api_key(user_id)
          IN  /\ api_keys' = g.keys
              /\ last' = [op |-> "generate_api_key", user_id |-> user_id,
                          api_key |-> g.api_key]
    /\ UNCHANGED <<users, ip_requests, api_usage_logs>>
    /\ AcctFrame

\* a call of verify_api_key with a key that was handed out, or with another
AcctVerifyKey ==
    /\ \E api_key \in 1 .. (Len(api_keys) + 1) :
          last' = [op |-> "verify_api_key", api_key |-> api_key,
                   result |-> verify_api_key(api_key)]
    /\ UNCHANGED <<users, ip_requests, api_keys, api_usage_logs>>
    /\ AcctFrame

\* LoggingMiddleware.dispatch around a request of an anonymous client whose
\* handler answered status_code: get_rate_limit_info for the path (inside
\* try / except), then the audit row, then the response is returned
AcctDispatch ==
    /\ \E ip \in IPs, endpoint \in Endpoints, status_code \in {200, 401},
          storage_ok \in BOOLEAN :
          LET w == log_api_request(api_usage_logs,
                       log_row(0, endpoint, "POST", status_code, ip), storage_ok)
          IN  /\ Len(w.log) <= MaxLog
              /\ ip_requests' = Put(ip_requests, ip,
                     Evict(Requests(ip), now, limit_config(endpoint).window))
              /\ api_usage_logs' = w.log
              /\ last' = [op |-> "dispatch", storage_ok |-> storage_ok,
                          raised |-> w.raised,
                          response |-> IF w.raised THEN 500 ELSE status_code,
                          status_code |-> status_code]
    /\ UNCHANGED <<users, api_keys>>
    /\ AcctFrame

NextAccounts ==
    \/ AcctCreateUser \/ UserDeactivated \/ AcctAuthenticate
    \/ AcctGenerateKey \/ AcctVerifyKey \/ AcctDispatch

SpecAccounts == InitAccounts /\ [][NextAccounts]_vars

----------------------------------------------------------------------------
(* The credentials of the accounts: passwords, API keys, and the access and
   refresh tokens that POST /auth/giris hands out, presented before and after
   a user's is_active flag is cleared *)

NextCredentials ==
    \/ AcctCreateUser \/ UserDeactivated \/ AcctAuthenticate
    \/ AcctGenerateKey \/ AcctVerifyKey
    \/ AuthLogin \/ AuthGetCurrentUser \/ AuthRefresh

SpecCredentials == InitAccounts /\ [][NextCredentials]_vars

----------------------------------------------------------------------------
(* Logging in to a user store that create_user has built from requests in
   which a username has the form of an e-mail address: create_user compares
   the new username with the usernames and the new e-mail with the e-mails,
   auth.py 209-217, and authenticate_user compares the one identifier it is
   given with both columns, auth.py 136-141 *)

CrossUsers ==
    {<<"bob", "bob@example.com", "password1", "standart">>,
     <<"bob@example.com", "carol@example.com", "password2", "standart">>}
CrossNames == {"admin", "bob", "bob@example.com", "carol@example.com"}
CrossPasswords == {"admin123", "password1", "password2"}

LoginCreateUser ==
    /\ \E a \in CrossUsers :
          LET r == create_user(users, a[1], a[2], a[3], a[4])
          IN  /\ users' = r.store
              /\ last' = [op |-> "create_user", ok |-> r.ok]
    /\ UNCHANGED <<ip_requests, api_keys, api_usage_logs>>
    /\ AcctFrame

LoginAuthenticate ==
    /\ \E username \in CrossNames, password \in CrossPasswords :
        \E row \in fetchone(MatchingUsers(users, username, username)) :
          LET a == authenticate_user(username, password, TRUE, row)
          IN  /\ Len(a.log) <= MaxLog
              /\ api_usage_logs' = a.log
              /\ last' = [op |-> "authenticate_user", username |-> username,
                          password |-> password, row |-> row,
                          result |-> a.result]
    /\ UNCHANGED <<users, ip_requests, api_keys>>
    /\ AcctFrame

NextLogin == LoginCreateUser \/ LoginAuthenticate

SpecLogin == InitAccounts /\ [][NextLogin]_vars

----------------------------------------------------------------------------
(* Claims about the rate limiter *)

\* C1: once N requests of an IP were admitted for an endpoint class within
\* the last W seconds (N, W the class's limit and window), the next
\* check_rate_limit of that IP for that class is rejected with 429,
\* whatever calls for other classes came in between.
C1_FullWindowRejects ==
    (last.op = "check" /\ last.prior >= limit_config(last.endpoint).requests)
        => last.status = 429

\* C2: a limit rejection leaves a block entry that expires 300 seconds later,
\* and until the clock reaches that expiry every check_rate_limit of the IP is
\* rejected, for any endpoint class and whatever its window count.
C2_BlockHoldsUntilExpiry ==
    /\ \A ip \in IPs :
          now < blockedUntil[ip] =>
              ip \in DOMAIN ip_blocks /\ ip_blocks[ip] = blockedUntil[ip]
    /\ (last.op = "check" /\ last.inBlock) => last.status = 429

\* a request to an endpoint whose own window count is below its limit is
\* rejected because another endpoint's rejection blocked the IP
C2_Witness ==
    /\ last.op = "check" /\ last.inBlock /\ last.status = 429
    /\ last.endpoint = "/analiz/baslat"
    /\ Len(Evict(Requests(last.ip), now, limit_config(last.endpoint).window))
          < limit_config(last.endpoint).requests

\* C3: of limit + 5 requests of one IP to one endpoint handled concurrently,
\* starting from an empty history, exactly `limit` are admitted and 5 are
\* rejected, in every interleaving of the handlers and the sweep.
C3_BurstAdmitsExactlyLimit ==
    /\ burst.admitted <= limit_config(burst.endpoint).requests
    /\ (\A h \in DOMAIN pc : pc[h] = "done") =>
          /\ burst.admitted = Len(pc) - BurstExtra
          /\ burst.rejected = BurstExtra

C3_Witness ==
    /\ pc # << >>
    /\ \A h \in DOMAIN pc : pc[h] = "done"
    /\ burst.admitted = limit_config(burst.endpoint).requests
    /\ burst.rejected = BurstExtra

\* C21: a check_rate_limit of an IP whose block has not expired is rejected
\* with retry_after = block expiry - now, which is positive, and leaves the
\* IP's timestamp sequence and the block map as they were.
C21_BlockedCheckChangesNothing ==
    [][(/\ last'.op = "check"
        /\ now' = now
        /\ last'.ip \in DOMAIN ip_blocks
        /\ now < ip_blocks[last'.ip])
          => /\ last'.status = 429
             /\ last'.retry_after = ip_blocks[last'.ip] - now
             /\ last'.retry_after >= 0
             /\ ip_requests' = ip_requests
             /\ ip_blocks' = ip_blocks]_vars

\* a request 200 seconds into a block is told to wait the other 100, for an
\* endpoint whose own window is not full
C21_Witness ==
    /\ last.op = "check"
    /\ last.cause = "blocked"
    /\ last.retry_after = 100
    /\ last.prior < limit_config(last.endpoint).requests
    /\ Requests(last.ip) # << >>

\* C16: a call of get_rate_limit_info leaves every IP's timestamp sequence
\* and the block map as they were.
C16_InfoIsPure ==
    [][last'.op = "info" =>
          /\ \A ip \in IPs : Requests(ip)' = Requests(ip)
          /\ ip_blocks' = ip_blocks]_vars

\* C17: when exactly N checks of an IP were admitted for a class with limit N
\* and window W, and none of the IP's checks was rejected, a check for that
\* class made more than W seconds after the first of them is admitted.
C17_WindowSlides ==
    [][(/\ last'.op = "check"
        /\ now' = now
        /\ ~hist[last'.ip].rejected
        /\ hist[last'.ip].class[LimitClass(last'.endpoint)].count
              = limit_config(last'.endpoint).requests
        /\ now - hist[last'.ip].class[LimitClass(last'.endpoint)].first
              > limit_config(last'.endpoint).window)
          => last'.status = 200]_vars

\* C20: check_rate_limit rejects for the limit only when the class's own
\* admitted requests inside its window reach the limit, and admits only when
\* they do not: what the IP sent to other classes does not count, and what was
\* evicted for other classes still does.
C20_ClassesAreIsolated ==
    [][(last'.op = "check" /\ now' = now) =>
          LET cfg == limit_config(last'.endpoint)
              own == admitted[last'.ip][LimitClass(last'.endpoint)]
          IN  /\ last'.cause = "limit" =>
                    Len(Recent(own, now, cfg.window)) >= cfg.requests
              /\ last'.status = 200 =>
                    CountWithin(own, now, cfg.window) < cfg.requests]_vars

----------------------------------------------------------------------------
(* Claims about tokens and authorization *)

LastCall(op) == "call" \in DOMAIN last /\ last.call.op = op

\* C4: get_current_user, get_admin_user and get_current_user_optional never
\* return a user for a token whose type claim is "refresh".
C4_RefreshTokenNeverAuthenticates ==
    (/\ \/ LastCall("get_current_user")
        \/ LastCall("get_admin_user")
        \/ LastCall("get_current_user_optional")
     /\ last.call.token.typ = "refresh")
        => last.result.status # 200

\* C5: refresh_access_token called with an access token returns None and
\* issues no new token, also when the token is correctly signed, unexpired,
\* not revoked and its user exists.
C5_AccessTokenCannotRefresh ==
    (LastCall("refresh_access_token") /\ last.call.token.typ = "access")
        => last.result = NoneResult /\ last.fresh = {}

C5_Witness ==
    /\ LastCall("refresh_access_token")
    /\ last.call.token.typ = "access"
    /\ last.call.live
    /\ last.call.owner.kind = "user"
    /\ last.result = NoneResult

\* C6: a token that revoke_token was called with stays in the revocation set,
\* and every later verify_token of it returns None, whatever happened in
\* between and although its expiry has not passed.
C6_RevokedStaysInvalid ==
    /\ revoked \subseteq blacklisted_tokens
    /\ (LastCall("verify_token") /\ last.call.token \in revoked)
          => last.result = NoneResult

C6_Witness ==
    /\ LastCall("verify_token")
    /\ last.call.token \in revoked
    /\ last.call.token.sig = "ok"
    /\ last.call.token.exp > now
    /\ last.result = NoneResult

\* C7: refresh_access_token succeeds only if the token's session row exists,
\* is unexpired and is still marked active.
C7_RefreshNeedsActiveSession ==
    (LastCall("refresh_access_token") /\ last.result.kind = "token")
        => last.session

\* C8: a token whose expiry is in the past is rejected by verify_token, and so
\* by get_current_user and refresh_access_token, also when its signature and
\* type are valid and it was never revoked.
C8_ExpiredIsRejected ==
    ("call" \in DOMAIN last /\ last.call.expired) =>
        /\ LastCall("verify_token") =>
              /\ last.result.kind # "payload"
              /\ last.call.token.sig = "ok" => last.result = NoneResult
        /\ LastCall("get_current_user") => last.result.status # 200
        /\ LastCall("get_admin_user") => last.result.status # 200
        /\ LastCall("get_current_user_optional") => last.result.status # 200
        /\ LastCall("refresh_access_token") => last.result = NoneResult

C8_Witness ==
    /\ LastCall("verify_token")
    /\ last.call.expired
    /\ last.call.token.sig = "ok"
    /\ last.call.token \notin blacklisted_tokens
    /\ last.result = NoneResult

\* C9: get_admin_user answers 403 to a valid token of an existing user who is
\* not an admin, and 401 to no token and to a token that does not verify.
C9_ForbiddenVersusUnauthorized ==
    LastCall("get_admin_user") =>
        /\ (/\ last.call.live
            /\ last.call.owner.kind = "user"
            /\ last.call.owner.user.rol # "admin") => last.result.status = 403
        /\ ~last.call.live => last.result.status = 401

\* C22: a successful refresh_access_token leaves the session rows and the
\* revocation set as they were, and its access token carries the id and the
\* role of the refresh token's user; and a refresh token handed out by a login
\* is exchanged whenever it is unexpired and not revoked, however often it was
\* exchanged before.
C22_RefreshDoesNotRotate ==
    /\ [][(/\ "call" \in DOMAIN last'
            /\ last'.call.op = "refresh_access_token"
            /\ last'.result.kind = "token"
            /\ now' = now)
              => /\ user_sessions' = user_sessions
                 /\ blacklisted_tokens' = blacklisted_tokens
                 /\ last'.result.token.typ = "access"
                 /\ last'.result.token.user_id = last'.call.token.user_id
                 /\ last'.result.token.role = users[last'.call.token.user_id].rol]_vars
    /\ []((/\ LastCall("refresh_access_token")
            /\ last.call.token.typ = "refresh"
            /\ last.call.live)
              => last.result.kind = "token")

\* the same refresh token is exchanged a second time, for a token that an
\* earlier exchange already returned
C22_Witness ==
    /\ LastCall("refresh_access_token")
    /\ last.call.token.typ = "refresh"
    /\ last.result.kind = "token"
    /\ last.fresh = {}
    /\ last.result.token.role = "admin"

\* C26: revoke_token(t) adds t to the revocation set and changes nothing else:
\* every other token handed out verifies as before; and once a logout has
\* revoked the access token of a login, the refresh token of that login is
\* still exchanged for an access token that verifies.
C26_RevokeIsExact ==
    /\ [][("op" \in DOMAIN last' /\ last'.op = "revoke_token" /\ now' = now)
              => /\ blacklisted_tokens' = blacklisted_tokens \cup {last'.token}
                 /\ users' = users
                 /\ user_sessions' = user_sessions
                 /\ \A t \in issued \ {last'.token} :
                        (t \in blacklisted_tokens') = (t \in blacklisted_tokens)]_vars
    /\ [][(/\ "call" \in DOMAIN last'
            /\ last'.call.op = "refresh_access_token"
            /\ last'.call.token.typ = "refresh"
            /\ last'.call.live
            /\ now' = now
            /\ revoked # {}
            /\ \A a \in revoked :
                  /\ a.typ = "access"
                  /\ a.role = ""
                  /\ a.user_id = last'.call.token.user_id
                  /\ a.exp - AccessTTL = last'.call.token.exp - RefreshTTL)
              => /\ last'.result.kind = "token"
                 /\ verify_token(last'.result.token).kind = "payload"]_vars

\* after the logout with the login's access token, the refresh token of that
\* login is exchanged
C26_Witness ==
    /\ LastCall("refresh_access_token")
    /\ last.call.token.typ = "refresh"
    /\ last.result.kind = "token"
    /\ \E a \in revoked :
          /\ a.typ = "access"
          /\ a.role = ""
          /\ a.user_id = last.call.token.user_id
          /\ a.exp - AccessTTL = last.call.token.exp - RefreshTTL
    /\ last.result.token \notin blacklisted_tokens

\* C18: verify_token raises for no token string; it returns claims when the
\* token is correctly signed, unexpired and not revoked, and None otherwise.
C18_VerifyTokenNeverRaises ==
    LastCall("verify_token") =>
        /\ last.result.kind # "raise"
        /\ last.call.live => last.result.kind = "payload"
        /\ ~last.call.live => last.result = NoneResult

----------------------------------------------------------------------------
(* Claims about the user store *)

\* C10: no two user records share a username and no two share an email, under
\* any interleaving of create_user calls and admin bootstraps; and a
\* create_user whose username or email exists when it returns has failed.
C10_UsersUnique ==
    /\ \A i, j \in DOMAIN users :
          i # j => /\ users[i].kullanici_adi # users[j].kullanici_adi
                   /\ users[i].email # users[j].email
    /\ (last.op = "create_user" /\ last.existed) => ~last.ok

\* a create_user that passed its own existence check and lost the race
C10_Witness ==
    /\ Len(users) >= 2
    /\ last.op = "create_user"
    /\ last.stage = "insert"
    /\ last.existed
    /\ ~last.ok

\* C11: a create_user call whose username is shorter than 3 characters, whose
\* password is shorter than 8, or whose username or email is already in the
\* store returns False, and the step in which it returns leaves the users
\* table exactly as it was.
C11_RejectedCreateChangesNothing ==
    [][(/\ last'.op = "create_user"
        /\ \/ Len(last'.username) < 3
           \/ Len(last'.password) < 8
           \/ last'.existed)
          => (~last'.ok /\ users' = users)]_vars

\* a too-short username and password are turned down on a store that holds
\* users already
C11_Witness ==
    /\ last.op = "create_user"
    /\ Len(last.username) < 3
    /\ Len(last.password) < 8
    /\ ~last.existed
    /\ ~last.ok
    /\ Len(users) >= 1

AdminRows == {i \in DOMAIN users : users[i].kullanici_adi = "admin"}

\* C12: however many times, and however interleaved, the admin bootstrap runs
\* on a store whose tables exist, the store holds exactly one user named
\* "admin" once a run has finished, never two; and a run that finds the user
\* present leaves the users table as it is and attempts no insert.
C12_BootstrapIdempotent ==
    /\ [](/\ Cardinality(AdminRows) <= 1
          /\ \A w \in Workers :
                (wpc[w].at \in {"imported", "up"} /\ wpc[w].ran)
                    => Cardinality(AdminRows) = 1)
    /\ [][(last'.op = "init_admin_select" /\ last'.found)
              => (users' = users /\ wpc'[last'.worker].at = "imported")]_vars

\* the bootstrap has run on the initialised store for both server starts, the
\* later one found the admin present, and other users exist beside it
C12_Witness ==
    /\ \A w \in Workers : wpc[w].at \in {"imported", "up"} /\ wpc[w].ran
    /\ last.op = "init_admin_select"
    /\ last.found
    /\ Cardinality(AdminRows) = 1
    /\ Len(users) >= 2

\* C13: once a server has come up on a store that was empty, a user "admin"
\* with role admin exists, and a login as admin / admin123 succeeds with an
\* access token whose claims carry role "admin".
C13_FirstStartupAdminLogin ==
    /\ (\E w \in Workers : wpc[w].at = "up") =>
          \E i \in DOMAIN users :
              users[i].kullanici_adi = "admin" /\ users[i].rol = "admin"
    /\ (last.op = "login" /\ last.username = "admin" /\ last.password = "admin123")
          => (last.status = 200 /\ last.access.role = "admin")

----------------------------------------------------------------------------
(* Claims about API keys, logins and the audit log *)

ActiveKeys(user_id) ==
    {i \in DOMAIN api_keys : api_keys[i].user_id = user_id /\ api_keys[i].is_active}

\* C14: no user has more than one active row in api_keys, and verify_api_key
\* accepts a key only if it is the last one generated for its user.
C14_OneActiveKeyPerUser ==
    /\ \A u \in DOMAIN users : Cardinality(ActiveKeys(u)) <= 1
    /\ (last.op = "verify_api_key" /\ last.result.kind = "user") =>
          \A i \in DOMAIN api_keys :
              api_keys[i].user_id = last.result.user.kullanici_id
                  => api_keys[i].api_key <= last.api_key

\* C15: authenticate_user returns None alike when no user matches the
\* identifier, when the matching user is inactive and when the password is
\* wrong, and in each case the users table and the audit log stay as they were.
C15_FailedLoginsIndistinguishable ==
    [][(last'.op = "authenticate_user" /\ last'.case # "ok")
          => /\ last'.result = NoneResult
             /\ users' = users
             /\ api_usage_logs' = api_usage_logs]_vars

\* the right password of a deactivated user is turned down like a wrong one,
\* on a store whose audit log holds a row of an earlier login
C15_Witness ==
    /\ last.op = "authenticate_user"
    /\ last.case = "inactive"
    /\ last.result = NoneResult
    /\ \E i \in last.matched : users[i].hashed_password = get_password_hash("admin123")
    /\ Len(api_usage_logs) = 1

\* C19: log_api_request returns normally whether or not the store takes the
\* row; when it does not, the audit log is unchanged, a login with valid
\* credentials still returns the user, and the middleware still returns the
\* handler's response.
C19_LoggingNeverFailsTheCaller ==
    [][/\ (last'.op = "authenticate_user" /\ last'.case = "ok") =>
             /\ last'.result.kind = "user"
             /\ last'.result.user = users[Min(last'.matched)]
             /\ ~last'.storage_ok => api_usage_logs' = api_usage_logs
             /\ last'.storage_ok => Len(api_usage_logs') = Len(api_usage_logs) + 1
       /\ last'.op = "dispatch" =>
             /\ ~last'.raised
             /\ last'.response = last'.status_code
             /\ ~last'.storage_ok => api_usage_logs' = api_usage_logs]_vars

\* a login with valid credentials succeeds although its audit row was lost
C19_Witness ==
    /\ last.op = "authenticate_user"
    /\ last.case = "ok"
    /\ ~last.storage_ok
    /\ last.result.kind = "user"
    /\ api_usage_logs = << >>

----------------------------------------------------------------------------
(* Claims about the sweep task and about idle clients *)

\* C23: while the limiter runs, the sweep runs every 60 seconds: the end of its
\* sleep is never more than 60 seconds away; hence every block entry whose
\* expiry has passed is eventually removed, every timestamp older than one
\* hour is eventually removed, and an IP whose sequence is empty is eventually
\* dropped from the map.
StaleBlock(ip) == ip \in DOMAIN ip_blocks /\ now > ip_blocks[ip]
StaleRequest(ip) ==
    \E i \in DOMAIN Requests(ip) : now - Requests(ip)[i] > SWEEP_RETENTION
EmptyEntry(ip) == ip \in DOMAIN ip_requests /\ ip_requests[ip] = <<>>

C23_SweepRemovesStale ==
    /\ [](now <= sweep_at /\ sweep_at - now <= SWEEP_INTERVAL)
    /\ \A ip \in IPs :
          /\ StaleBlock(ip) ~> ~StaleBlock(ip)
          /\ StaleRequest(ip) ~> ~StaleRequest(ip)
          /\ EmptyEntry(ip) ~> ~EmptyEntry(ip)

\* the last request of the client found the sequence full and was rejected;
\* a sweep, more than an hour later, has removed the block and the sequence
C23_Witness ==
    /\ last.op = "sweep"
    /\ \E ip \in IPs :
          /\ seen[ip] = LastRequest
          /\ blockedUntil[ip] = LastRequest + BLOCK_DURATION
          /\ now - seen[ip] > SWEEP_RETENTION
          /\ ip \notin DOMAIN ip_blocks
          /\ ip \notin DOMAIN ip_requests

Decision(ip, endpoint) ==
    LET cfg == limit_config(endpoint)
    IN  IF is_blocked(ip) THEN "blocked"
        ELSE IF OverLimit(Len(Evict(Requests(ip), now, cfg.window)), cfg.requests)
        THEN "limit"
        ELSE "admit"

\* the timestamps of ip that a request of ip to endpoint counts
Counted(ip, endpoint) == Evict(Requests(ip), now, limit_config(endpoint).window)

\* C30: a pass of the sweep changes no admission decision: every block entry
\* it removes has expired, and for every endpoint class, the default one
\* included, the timestamps inside the class's window and the decision of
\* check_rate_limit are the same after the pass as before it.
C30_SweepKeepsDecisions ==
    [][(last'.op = "sweep" /\ now' = now) =>
          \A ip \in IPs :
              /\ (ip \in DOMAIN ip_blocks /\ ip \notin DOMAIN ip_blocks')
                    => ~is_blocked(ip)
              /\ \A e \in DOMAIN endpoint_limits \cup {None} :
                    /\ Counted(ip, e)' = Counted(ip, e)
                    /\ Decision(ip, e)' = Decision(ip, e)]_vars

\* a pass has removed the expired block of an IP and kept its timestamps,
\* which are older than the window of /auth/giris and inside the default one
C30_Witness ==
    /\ last.op = "sweep"
    /\ \E ip \in IPs :
          /\ blockedUntil[ip] > 0
          /\ ip \notin DOMAIN ip_blocks
          /\ Len(Requests(ip)) = endpoint_limits["/auth/giris"].requests
          /\ now - Requests(ip)[1] > endpoint_limits["/auth/giris"].window

----------------------------------------------------------------------------
(* Claims about the accounts *)

\* C24: a successful authenticate sets the last-login timestamp of the
\* authenticated user to the time of the login and appends one audit row
\* for it (when the audit log can be written); a failed authenticate changes
\* neither the users nor the audit log.
C24_LoginStampsLastLogin ==
    [][(last'.op = "authenticate_user")
          => IF last'.result.kind = "user"
             THEN /\ users' = update_last_login(users,
                                   last'.result.user.kullanici_id, now)
                  /\ last'.storage_ok =>
                        Len(api_usage_logs') = Len(api_usage_logs) + 1
             ELSE /\ users' = users
                  /\ api_usage_logs' = api_usage_logs]_vars

\* C25: no credential is accepted on behalf of a user whose active flag is
\* false: the user that authenticate_user or verify_api_key returns, the user
\* that get_current_user returns for an access token, and the user for whom
\* refresh_access_token issues an access token, is active.
C25_InactiveUserIsRefused ==
    /\ ("op" \in DOMAIN last /\ last.op \in {"authenticate_user", "verify_api_key"}
          /\ last.result.kind = "user")
          => users[last.result.user.kullanici_id].is_active
    /\ (LastCall("get_current_user") /\ last.result.status = 200)
          => users[last.result.user.kullanici_id].is_active
    /\ (LastCall("refresh_access_token") /\ last.result.kind = "token")
          => users[last.call.token.user_id].is_active

\* C27: in every user store that create_user has built, authenticate_user,
\* given the username or the e-mail of an active user and that user's
\* password, returns that user.
C27_OwnCredentialsLogIn ==
    last.op = "authenticate_user" =>
        \A i \in DOMAIN users :
            (/\ users[i].is_active
             /\ last.username \in {users[i].kullanici_adi, users[i].email}
             /\ verify_password(last.password, users[i].hashed_password))
            => /\ last.result.kind = "user"
               /\ last.result.user.kullanici_id = users[i].kullanici_id

----------------------------------------------------------------------------
(* Claims about the sequence of timestamps of an IP *)

LargestLimit ==
    CHOOSE m \in {endpoint_limits[c].requests : c \in DOMAIN endpoint_limits} :
        \A c \in DOMAIN endpoint_limits : endpoint_limits[c].requests <= m

IsSuffix(s, t) == \E k \in 0 .. Len(t) : s = SubSeq(t, k + 1, Len(t))

\* C28: in every reachable state the sequence of an IP holds at most as many
\* timestamps as the largest configured limit, in non-decreasing order; a
\* check that admits appends the current time to what eviction left, a check
\* that rejects records nothing, and eviction leaves a suffix of the sequence.
C28_SequenceBoundedAndOrdered ==
    /\ [](\A ip \in DOMAIN ip_requests :
            /\ Len(ip_requests[ip]) <= LargestLimit
            /\ \A i, j \in DOMAIN ip_requests[ip] :
                  i <= j => ip_requests[ip][i] <= ip_requests[ip][j])
    /\ [][(last'.op = "check" /\ now' = now) =>
            LET before == Requests(last'.ip)
                after  == IF last'.ip \in DOMAIN ip_requests'
                          THEN ip_requests'[last'.ip] ELSE <<>>
            IN  IF last'.status = 200
                THEN /\ after # <<>>
                     /\ after[Len(after)] = now
                     /\ IsSuffix(SubSeq(after, 1, Len(after) - 1), before)
                ELSE IsSuffix(after, before)]_vars

\* the sequence is full, with timestamps of two different times, and the
\* request that found it full was rejected
C28_Witness ==
    /\ last.op = "check"
    /\ last.cause = "limit"
    /\ Len(Requests(last.ip)) = LargestLimit
    /\ Requests(last.ip)[1] < Requests(last.ip)[LargestLimit]

====
